---------------------------- MODULE Spec2Model ----------------------------
(***************************************************************************)
(* Model of the two extraction scripts of rosbag2_audio_px4_processing:    *)
(*   export_to_wav.py            (audio topic  -> WAV + metadata sidecar)  *)
(*   export_actuator_commands.py (motor topic  -> stdout + CSV)            *)
(* One behaviour is one run of one script's main() on one bag.             *)
(***************************************************************************)
EXTENDS Integers, Sequences, FiniteSets, TLC

VARIABLES
    script,             \* which script's main() runs
    args,               \* argparse result: sample_width, frame_rate, channels
    reader_connections, \* reader.connections of the opened bag
    bag_messages,       \* every message stored in the bag, timestamp ascending
    pc,                 \* position of main()
    err,                \* exception that ended the run, "none" while running
    connections,        \* the local list `connections` of the running function
    stream,             \* sequence the generator reader.messages(...) delivers
    pos,                \* number of records pulled from the generator
    passes,             \* number of reader.messages(...) calls of this run
    first_timestamp,    \* <<>> is None, <<t>> is the int t
    audio_data,         \* the bytearray
    printed,            \* lines written to stdout by process_messages
    wav_file,           \* <<>> while absent, <<content>> once written
    metadata_file,      \* <<>> while absent, <<lines>> once written
    csv_file            \* <<>> while absent, <<rows>> once opened

vars == <<script, args, reader_connections, bag_messages, pc, err, connections,
          stream, pos, passes, first_timestamp, audio_data, printed,
          wav_file, metadata_file, csv_file>>

---------------------------------------------------------------------------
(* Bounds of the model *)

MaxMsgs == 2

---------------------------------------------------------------------------
(* Program constants *)

AUDIO_TOPIC == "/audio/audio"
MOTOR_TOPIC == "/fmu/out/actuator_outputs"
AudioDataType == "audio_common_msgs/msg/AudioData"
ActuatorOutputsType == "px4_msgs/msg/ActuatorOutputs"
OutputLen == 16
DefaultSampleWidth == 2
DefaultFrameRate == 48000
DefaultChannels == 1

ExportToWav == "export_to_wav"
ExportActuatorCommands == "export_actuator_commands"

\* A topic of the bag that neither script asks for.
OTHER_TOPIC == "/other"

---------------------------------------------------------------------------
(* Inputs: the bags and command lines a run may be given *)

Timestamps == {0, 100}

\* CDR body of AudioData: the sequence length, then the uint8 elements.
\* <<2, 9>> declares two elements and carries one (a truncated payload).
AudioPayloads == { <<1, 7>>, <<4, 1, 2, 3, 4>>, <<4, 5, 6, 7, 8>>, <<2, 9>> }

\* CDR body of ActuatorOutputs: timestamp, noutputs, output[16].
ActuatorPayload(t, n, v) == <<t, n>> \o [i \in 1..OutputLen |-> v]

ActuatorPayloads == { ActuatorPayload(5, 4, 1), ActuatorPayload(6, 2, 3), <<5, 4, 1>> }

Payloads(msgtype) ==
    IF msgtype = AudioDataType THEN AudioPayloads ELSE ActuatorPayloads

Connection(topic, msgtype) == [topic |-> topic, msgtype |-> msgtype]

CandidateConnections ==
    { Connection(AUDIO_TOPIC, AudioDataType),
      Connection(MOTOR_TOPIC, ActuatorOutputsType),
      Connection(OTHER_TOPIC, AudioDataType),
      Connection(OTHER_TOPIC, ActuatorOutputsType) }

\* A bag binds a topic name to one message type.
ConnectionSets ==
    { cs \in SUBSET CandidateConnections :
        \A a \in cs, b \in cs : a.topic = b.topic => a = b }

MessageOptions(conns) ==
    UNION { { [connection |-> c, timestamp |-> t, rawdata |-> r] :
                t \in Timestamps, r \in Payloads(c.msgtype) } : c \in conns }

Ascending(s) ==
    \A i \in 1..(Len(s) - 1) : s[i].timestamp <= s[i + 1].timestamp

Bags(conns) ==
    { s \in UNION { [1..k -> MessageOptions(conns)] : k \in 0..MaxMsgs } :
        Ascending(s) }

ArgSets ==
    [ sample_width : {1, DefaultSampleWidth},
      frame_rate : {16000, DefaultFrameRate},
      channels : {DefaultChannels, 2} ]

DefaultArgs ==
    [ sample_width |-> DefaultSampleWidth,
      frame_rate |-> DefaultFrameRate,
      channels |-> DefaultChannels ]

---------------------------------------------------------------------------
(* Library calls made by the scripts *)

\* The message types the script's typestore can decode: the ROS2_HUMBLE
\* store plus the one type the script registers.
Registered(s) ==
    IF s = ExportToWav THEN {AudioDataType} ELSE {ActuatorOutputsType}

\* typestore.deserialize_cdr succeeds: the type is registered and the
\* payload holds every element its layout declares.
CanDeserialize(s, rawdata, msgtype) ==
    /\ msgtype \in Registered(s)
    /\ IF msgtype = AudioDataType
         THEN Len(rawdata) >= 1 /\ rawdata[1] <= Len(rawdata) - 1
         ELSE Len(rawdata) >= 2 + OutputLen

DeserializeError(s, msgtype) ==
    IF msgtype \in Registered(s) THEN "DeserializeError" ELSE "KeyError"

\* The decoded message object.
deserialize_cdr(rawdata, msgtype) ==
    IF msgtype = AudioDataType
      THEN [data |-> SubSeq(rawdata, 2, 1 + rawdata[1])]
      ELSE [timestamp |-> rawdata[1],
            noutputs |-> rawdata[2],
            output |-> SubSeq(rawdata, 3, 2 + OutputLen)]

\* connections = [x for x in reader.connections if x.topic == topic]
FilterConnections(conns, topic) == { x \in conns : x.topic = topic }

\* reader.messages(connections=connections) of rosbags: "An empty iterable
\* disables filtering on connections"; otherwise the messages of the given
\* connections' topics, by timestamp.
reader_messages(msgs, conns) ==
    IF conns = {}
      THEN msgs
      ELSE SelectSeq(msgs, LAMBDA m : m.connection.topic \in { x.topic : x \in conns })

\* AudioSegment(data=..., sample_width=..., frame_rate=..., channels=...) of
\* pydub accepts the data only in whole frames.
AudioSegmentAccepts(data, sample_width, channels) ==
    Len(data) % (sample_width * channels) = 0

---------------------------------------------------------------------------
(* export_to_wav.py *)

\* Variant: the capture tests truthiness (`if not first_timestamp`), so a
\* first timestamp of 0 is captured again.
CaptureFirstTimestampFalsy(ft, timestamp) ==
    IF ft = <<>> \/ ft = <<0>> THEN <<timestamp>> ELSE ft

\* if first_timestamp is None: first_timestamp = timestamp
CaptureFirstTimestamp(ft, timestamp) ==
    IF ft = <<>> THEN <<timestamp>> ELSE ft

\* Variant: the buffer is assigned instead of extended.
ExtendOverwrite(buf, data) == data

\* audio_data.extend(msg.data)
Extend(buf, data) == buf \o data

\* str(value) of a value that is None or an int
StrOpt(v) == IF v = <<>> THEN "None" ELSE ToString(v[1])

\* Variant: the frame rate written is the default, not the one used.
MetadataDefaultRate(ft, a) ==
    << <<"First Audio Timestamp", StrOpt(ft)>>,
       <<"Sample Width", ToString(a.sample_width * 8)>>,
       <<"Frame Rate", ToString(DefaultFrameRate)>>,
       <<"Channels", ToString(a.channels)>> >>

\* The dict built in main, in insertion order.
Metadata(ft, a) ==
    << <<"First Audio Timestamp", StrOpt(ft)>>,
       <<"Sample Width", ToString(a.sample_width * 8)>>,
       <<"Frame Rate", ToString(a.frame_rate)>>,
       <<"Channels", ToString(a.channels)>> >>

\* file.write(f"{key}: {value}\n") for each item
MetadataLines(metadata) ==
    [i \in 1..Len(metadata) |-> metadata[i][1] \o ": " \o metadata[i][2]]

Init ==
    /\ script \in {ExportToWav, ExportActuatorCommands}
    /\ args \in (IF script = ExportToWav THEN ArgSets ELSE {DefaultArgs})
    /\ reader_connections \in ConnectionSets
    /\ bag_messages \in Bags(reader_connections)
    /\ pc = "main"
    /\ err = "none"
    /\ connections = {}
    /\ stream = <<>>
    /\ pos = 0
    /\ passes = 0
    /\ first_timestamp = <<>>
    /\ audio_data = <<>>
    /\ printed = <<>>
    /\ wav_file = <<>>
    /\ metadata_file = <<>>
    /\ csv_file = <<>>

inputs == <<script, args, reader_connections, bag_messages>>

\* collect_audio_data: the lines before the loop
collect_audio_data_begin ==
    /\ pc = "main"
    /\ script = ExportToWav
    /\ audio_data' = <<>>
    /\ first_timestamp' = <<>>
    /\ connections' = FilterConnections(reader_connections, AUDIO_TOPIC)
    /\ stream' = reader_messages(bag_messages, connections')
    /\ pos' = 0
    /\ passes' = passes + 1
    /\ pc' = "collect_loop"
    /\ UNCHANGED <<inputs, err, printed, wav_file, metadata_file, csv_file>>

\* Variant: a record that cannot be decoded is skipped and the loop goes on.
collect_audio_data_step_skip ==
    /\ pc = "collect_loop"
    /\ pos < Len(stream)
    /\ LET m == stream[pos + 1] IN
        /\ pos' = pos + 1
        /\ first_timestamp' = CaptureFirstTimestamp(first_timestamp, m.timestamp)
        /\ IF CanDeserialize(script, m.rawdata, m.connection.msgtype)
             THEN audio_data' =
                      Extend(audio_data,
                             deserialize_cdr(m.rawdata, m.connection.msgtype).data)
             ELSE UNCHANGED audio_data
    /\ UNCHANGED <<inputs, pc, err, connections, stream, passes, printed,
                   wav_file, metadata_file, csv_file>>

\* collect_audio_data: one iteration of the loop
collect_audio_data_step ==
    /\ pc = "collect_loop"
    /\ pos < Len(stream)
    /\ LET m == stream[pos + 1] IN
        /\ pos' = pos + 1
        /\ first_timestamp' = CaptureFirstTimestamp(first_timestamp, m.timestamp)
        /\ IF CanDeserialize(script, m.rawdata, m.connection.msgtype)
             THEN /\ audio_data' =
                        Extend(audio_data,
                               deserialize_cdr(m.rawdata, m.connection.msgtype).data)
                  /\ UNCHANGED <<pc, err>>
             ELSE /\ pc' = "failed"
                  /\ err' = DeserializeError(script, m.connection.msgtype)
                  /\ UNCHANGED audio_data
    /\ UNCHANGED <<inputs, connections, stream, passes, printed,
                   wav_file, metadata_file, csv_file>>

\* collect_audio_data: the generator is exhausted, the function returns
collect_audio_data_return ==
    /\ pc = "collect_loop"
    /\ pos = Len(stream)
    /\ pc' = "save_audio"
    /\ UNCHANGED <<inputs, err, connections, stream, pos, passes, first_timestamp,
                   audio_data, printed, wav_file, metadata_file, csv_file>>

save_audio_to_file ==
    /\ pc = "save_audio"
    /\ IF AudioSegmentAccepts(audio_data, args.sample_width, args.channels)
         THEN /\ wav_file' = << [ sample_width |-> args.sample_width,
                                  frame_rate |-> args.frame_rate,
                                  channels |-> args.channels,
                                  data |-> audio_data ] >>
              /\ pc' = "save_metadata"
              /\ UNCHANGED err
         ELSE /\ pc' = "failed"
              /\ err' = "ValueError"
              /\ UNCHANGED wav_file
    /\ UNCHANGED <<inputs, connections, stream, pos, passes, first_timestamp,
                   audio_data, printed, metadata_file, csv_file>>

save_metadata_to_file ==
    /\ pc = "save_metadata"
    /\ metadata_file' = << MetadataLines(Metadata(first_timestamp, args)) >>
    /\ pc' = "done"
    /\ UNCHANGED <<inputs, err, connections, stream, pos, passes, first_timestamp,
                   audio_data, printed, wav_file, csv_file>>

---------------------------------------------------------------------------
(* export_actuator_commands.py *)

\* The line process_messages prints for one message.
PrintLine(timestamp, msg) ==
    "Timestamp: " \o ToString(timestamp) \o ", NOutputs: " \o ToString(msg.noutputs)
        \o ", Output: " \o ToString(msg.output)

\* writer.writerow(['Timestamp', 'NOutputs', 'Output'])
HeaderRow == <<"Timestamp", "NOutputs", "Output">>

\* The cells of writer.writerow([timestamp, msg.noutputs, list(msg.output)])
DataRow(timestamp, msg) ==
    <<ToString(timestamp), ToString(msg.noutputs), ToString(msg.output)>>

\* Variant: the row is put in front of the rows already written.
WriteRowFirst(rows, row) == <<row>> \o rows

\* writer.writerow(row) on the open file
WriteRow(rows, row) == Append(rows, row)

\* process_messages: the lines before the loop
process_messages_begin ==
    /\ pc = "main"
    /\ script = ExportActuatorCommands
    /\ connections' = FilterConnections(reader_connections, MOTOR_TOPIC)
    /\ stream' = reader_messages(bag_messages, connections')
    /\ pos' = 0
    /\ passes' = passes + 1
    /\ pc' = "process_loop"
    /\ UNCHANGED <<inputs, err, first_timestamp, audio_data, printed,
                   wav_file, metadata_file, csv_file>>

\* process_messages: one iteration of the loop
process_messages_step ==
    /\ pc = "process_loop"
    /\ pos < Len(stream)
    /\ LET m == stream[pos + 1] IN
        /\ pos' = pos + 1
        /\ IF CanDeserialize(script, m.rawdata, m.connection.msgtype)
             THEN /\ printed' =
                        Append(printed,
                               PrintLine(m.timestamp,
                                         deserialize_cdr(m.rawdata, m.connection.msgtype)))
                  /\ UNCHANGED <<pc, err>>
             ELSE /\ pc' = "failed"
                  /\ err' = DeserializeError(script, m.connection.msgtype)
                  /\ UNCHANGED printed
    /\ UNCHANGED <<inputs, connections, stream, passes, first_timestamp, audio_data,
                   wav_file, metadata_file, csv_file>>

\* process_messages: the generator is exhausted, the function returns
process_messages_return ==
    /\ pc = "process_loop"
    /\ pos = Len(stream)
    /\ pc' = "save_csv"
    /\ UNCHANGED <<inputs, err, connections, stream, pos, passes, first_timestamp,
                   audio_data, printed, wav_file, metadata_file, csv_file>>

\* Variant: the loop reuses the generator process_messages has exhausted.
save_messages_to_csv_begin_reuse ==
    /\ pc = "save_csv"
    /\ connections' = FilterConnections(reader_connections, MOTOR_TOPIC)
    /\ csv_file' = << WriteRow(<<>>, HeaderRow) >>
    /\ pc' = "csv_loop"
    /\ UNCHANGED <<inputs, err, stream, pos, passes, first_timestamp, audio_data,
                   printed, wav_file, metadata_file>>

\* save_messages_to_csv: the file is opened for writing, the header row is
\* written and the generator is created
save_messages_to_csv_begin ==
    /\ pc = "save_csv"
    /\ connections' = FilterConnections(reader_connections, MOTOR_TOPIC)
    /\ csv_file' = << WriteRow(<<>>, HeaderRow) >>
    /\ stream' = reader_messages(bag_messages, connections')
    /\ pos' = 0
    /\ passes' = passes + 1
    /\ pc' = "csv_loop"
    /\ UNCHANGED <<inputs, err, first_timestamp, audio_data, printed,
                   wav_file, metadata_file>>

\* save_messages_to_csv: one iteration of the loop
save_messages_to_csv_step ==
    /\ pc = "csv_loop"
    /\ pos < Len(stream)
    /\ LET m == stream[pos + 1] IN
        /\ pos' = pos + 1
        /\ IF CanDeserialize(script, m.rawdata, m.connection.msgtype)
             THEN /\ csv_file' =
                        << WriteRow(csv_file[1],
                                    DataRow(m.timestamp,
                                            deserialize_cdr(m.rawdata, m.connection.msgtype))) >>
                  /\ UNCHANGED <<pc, err>>
             ELSE /\ pc' = "failed"
                  /\ err' = DeserializeError(script, m.connection.msgtype)
                  /\ UNCHANGED csv_file
    /\ UNCHANGED <<inputs, connections, stream, passes, first_timestamp, audio_data,
                   printed, wav_file, metadata_file>>

\* save_messages_to_csv: the generator is exhausted, the file is closed
save_messages_to_csv_return ==
    /\ pc = "csv_loop"
    /\ pos = Len(stream)
    /\ pc' = "done"
    /\ UNCHANGED <<inputs, err, connections, stream, pos, passes, first_timestamp,
                   audio_data, printed, wav_file, metadata_file, csv_file>>

---------------------------------------------------------------------------
(* Both scripts *)

\* The for statement pulls the next record from the generator, which reads
\* the bag's storage; the read raises and the exception leaves main.
reader_messages_raises ==
    /\ pc \in {"collect_loop", "process_loop", "csv_loop"}
    /\ pos < Len(stream)
    /\ pc' = "failed"
    /\ err' = "ReaderError"
    /\ UNCHANGED <<inputs, connections, stream, pos, passes, first_timestamp,
                   audio_data, printed, wav_file, metadata_file, csv_file>>

Next ==
    \/ collect_audio_data_begin
    \/ collect_audio_data_step
    \/ collect_audio_data_return
    \/ save_audio_to_file
    \/ save_metadata_to_file
    \/ process_messages_begin
    \/ process_messages_step
    \/ process_messages_return
    \/ save_messages_to_csv_begin
    \/ save_messages_to_csv_step
    \/ save_messages_to_csv_return
    \/ reader_messages_raises

Spec == Init /\ [][Next]_vars

---------------------------------------------------------------------------
(* Vocabulary of the properties *)

DecodeErrors == {"DeserializeError", "KeyError"}

ReadErrors == DecodeErrors \cup {"ReaderError"}

\* The topic the running script asks the reader for.
TargetTopic == IF script = ExportToWav THEN AUDIO_TOPIC ELSE MOTOR_TOPIC

Decodable(m) == CanDeserialize(script, m.rawdata, m.connection.msgtype)

Decoded(m) == deserialize_cdr(m.rawdata, m.connection.msgtype)

\* Records of the current pass that were pulled and decoded.
Accumulated == IF err \in DecodeErrors THEN pos - 1 ELSE pos

IsPrefix(s, t) == Len(s) <= Len(t) /\ SubSeq(t, 1, Len(s)) = s

RECURSIVE ConcatData(_)
ConcatData(s) ==
    IF s = <<>> THEN <<>>
    ELSE ConcatData(SubSeq(s, 1, Len(s) - 1)) \o Decoded(s[Len(s)]).data

RECURSIVE SumDataLen(_)
SumDataLen(s) ==
    IF s = <<>> THEN 0
    ELSE SumDataLen(SubSeq(s, 1, Len(s) - 1)) + Len(Decoded(s[Len(s)]).data)

ExpectedRows(n) ==
    <<HeaderRow>> \o [i \in 1..n |-> DataRow(stream[i].timestamp, Decoded(stream[i]))]

NoArtifact == wav_file = <<>> /\ metadata_file = <<>> /\ csv_file = <<>>

---------------------------------------------------------------------------
(* C1: when the record stream handed to the export is empty, the run does  *)
(* not complete and no WAV, metadata or CSV file exists.                   *)
C1_EmptyTopicWritesNothing ==
    (passes >= 1 /\ stream = <<>>) => (NoArtifact /\ pc # "done")

(* C2: at every point of save_messages_to_csv the file holds the header    *)
(* row followed by one row per record decoded so far, in delivery order,   *)
(* row i made of record i's timestamp and decoded fields; when the         *)
(* function returns there is one data row per delivered record, and the    *)
(* delivery order is timestamp-ascending.                                  *)
C2_CsvRows ==
    (script = ExportActuatorCommands /\ csv_file # <<>>) =>
        /\ csv_file[1] = ExpectedRows(Accumulated)
        /\ Ascending(stream)
        /\ pc = "done" => Len(csv_file[1]) = 1 + Len(stream)

C2_Witness ==
    /\ script = ExportActuatorCommands
    /\ pc = "done"
    /\ Len(csv_file[1]) = 3
    /\ stream[1].timestamp < stream[2].timestamp
    /\ csv_file[1][2] # csv_file[1][3]

\* The buffer against the records decoded so far.
BufferState ==
    script = ExportToWav =>
        /\ audio_data = ConcatData(SubSeq(stream, 1, Accumulated))
        /\ Len(audio_data) = SumDataLen(SubSeq(stream, 1, Accumulated))

(* C3: the buffer of collect_audio_data is the concatenation of the data   *)
(* of the records decoded so far, in delivery order; its length is the sum *)
(* of their lengths; and each step leaves the old buffer a prefix of the   *)
(* new one.                                                                *)
C3_Concatenation ==
    [](BufferState) /\ [][IsPrefix(audio_data, audio_data')]_vars

C3_Witness ==
    /\ script = ExportToWav
    /\ pos = 2
    /\ audio_data = <<1, 2, 3, 4, 5, 6, 7, 8>>

ExpectedPasses == IF script = ExportToWav THEN 1 ELSE 2

PassesState ==
    /\ passes <= ExpectedPasses
    /\ pc = "done" => passes = ExpectedPasses
    /\ pos <= Len(stream)

C5_OnlyTargetTopic ==
    passes >= 1 =>
        /\ \A i \in 1..Accumulated : stream[i].connection.topic = TargetTopic
        /\ connections = {} => pos = 0

(* C7: a failure to read or decode a record ends the run at that record    *)
(* with no WAV and no metadata; a WAV exists only when every delivered     *)
(* record was decoded and accumulated; the metadata exists only after the  *)
(* WAV; a CSV left by a failed run holds the header and the rows of the    *)
(* records decoded before the failure.                                     *)
C7_NoPartialArtifact ==
    /\ wav_file # <<>> =>
          /\ pos = Len(stream)
          /\ \A i \in 1..Len(stream) : Decodable(stream[i])
          /\ wav_file[1].data = ConcatData(stream)
    /\ metadata_file # <<>> => wav_file # <<>>
    /\ err # "none" <=> pc = "failed"
    /\ err \in DecodeErrors => ~Decodable(stream[pos])
    /\ err \in ReadErrors =>
          /\ \A i \in 1..Accumulated : Decodable(stream[i])
          /\ wav_file = <<>> /\ metadata_file = <<>>
          /\ csv_file # <<>> => csv_file[1] = ExpectedRows(Accumulated)
    /\ pc = "failed" => metadata_file = <<>>

C7_Witness ==
    /\ script = ExportToWav
    /\ pc = "failed"
    /\ err = "DeserializeError"
    /\ pos = 2
    /\ audio_data # <<>>

(* C8 (as claimed): the metadata lines are the first timestamp and the     *)
(* framing values exactly as passed to save_audio_to_file.                 *)
C8_MetadataEqualsFraming ==
    metadata_file # <<>> =>
        metadata_file[1] =
            << "First Audio Timestamp: " \o StrOpt(first_timestamp),
               "Sample Width: " \o ToString(wav_file[1].sample_width),
               "Frame Rate: " \o ToString(wav_file[1].frame_rate),
               "Channels: " \o ToString(wav_file[1].channels) >>

(* C8 (amended): the metadata holds four 'key: value' lines in insertion   *)
(* order: the first timestamp observed (None for an empty stream), the     *)
(* sample width in bits (8 times the byte width passed to                  *)
(* save_audio_to_file), and the frame rate and channel count as passed.    *)
C8_MetadataBits ==
    metadata_file # <<>> =>
        metadata_file[1] =
            << "First Audio Timestamp: " \o StrOpt(first_timestamp),
               "Sample Width: " \o ToString(wav_file[1].sample_width * 8),
               "Frame Rate: " \o ToString(wav_file[1].frame_rate),
               "Channels: " \o ToString(wav_file[1].channels) >>

C8_Witness ==
    /\ metadata_file # <<>>
    /\ pos = 2
    /\ first_timestamp = <<100>>
    /\ wav_file[1].frame_rate # DefaultFrameRate
    /\ wav_file[1].channels = 2

(* C9: first_timestamp is None exactly while no record was pulled, and     *)
(* afterwards is the timestamp of the first record pulled, which is the    *)
(* least timestamp pulled.                                                 *)
C9_FirstTimestamp ==
    script = ExportToWav =>
        /\ first_timestamp = <<>> <=> pos = 0
        /\ pos > 0 =>
              /\ first_timestamp = <<stream[1].timestamp>>
              /\ \A i \in 1..pos : first_timestamp[1] <= stream[i].timestamp

C9_Witness ==
    /\ script = ExportToWav
    /\ pos = 2
    /\ first_timestamp = <<0>>
    /\ stream[2].timestamp = 100

(* C10: a WAV is written only from a stream in which every record's data   *)
(* length is a multiple of the channel count.                              *)
C10_WholeFramesPerRecord ==
    wav_file # <<>> =>
        \A i \in 1..Len(stream) :
            Len(Decoded(stream[i]).data) % args.channels = 0

=============================================================================
